---- MODULE Spec2Model ----
(***************************************************************************)
(* State-machine model of the 4x4 tic-tac-toe engine:                      *)
(*   TicTacToeAbstract (tic_tac_toe_abstract.py) specialised by            *)
(*   TicTacToe4x4 (tic_tac_toe_4x4.py), with the enums of enums.py.        *)
(* One engine object is modelled in full; a second engine, held in the     *)
(* record "other", is there for the specification SpecTwo, where two       *)
(* engines may hold the same list object as their board.  The record      *)
(* "game" is the TicTacToeGame of game.py, whose play_game loop drives the *)
(* first engine under SpecGame; elsewhere no TicTacToeGame exists.         *)
(* Python values are modelled as follows:                                  *)
(*   cell symbols   "" / "X" / "O",                                        *)
(*   Player members "Player.X" / "Player.O", Python None as "None",        *)
(*   a grid         a function 0..n-1 -> (0..m-1 -> symbol), as the list   *)
(*                  of lists is indexed in the source,                     *)
(*   True/False/None results of the move operations as strings, since a    *)
(*   method may return any of the three.                                   *)
(***************************************************************************)
EXTENDS Integers, FiniteSets, Sequences, TLC

VARIABLES
    constructed,    \* TRUE once a constructor call has returned an engine
    board,          \* self._board
    emptyCells,     \* self._empty_cells
    xCount,         \* self._x_count
    oCount,         \* self._o_count
    currentPlayer,  \* self._current_player
    winner,         \* self._winner
    lastOp,         \* the last call made: "none", "construct", "make_move", "reset"
    ret,            \* what the last call returned: "True", "False", "None"
    error,          \* the exception the last call raised, or "None"
    moves,          \* successful make_move calls since construction / reset
    boardRef,       \* the list object self._board refers to: "own" (a list the
                    \* engine created) or "caller" (the caller's initial_state)
    other,          \* a second engine: a record of the same fields
    game            \* the TicTacToeGame object of game.py that drives the
                    \* engine, with the position and locals of its methods

vars == <<constructed, board, emptyCells, xCount, oCount, currentPlayer,
          winner, lastOp, ret, error, moves, boardRef, other, game>>

engine == <<board, emptyCells, xCount, oCount, currentPlayer, winner>>

----------------------------------------------------------------------------
(* Bounds of the model *)

\* successful moves explored per engine lifetime under Spec
MaxMoves == 3

\* moves left free at the end of a scripted game under SpecPlay
FreeMoves == 8

\* successful moves explored after a construction under SpecWin
MaxWinMoves == 1

\* games of a tournament under SpecGame
MaxGames == 1

\* moves left free after the scripted opening under SpecGame
GameFreeMoves == 6

\* moves left free after the scripted opening under SpecBlocks
BlockFreeMoves == 4

\* successful moves of the two engines together under SpecTwo
MaxTwoMoves == 1

----------------------------------------------------------------------------
(* enums.py and the constants of the 4x4 board *)

Size == 4

PX == "Player.X"

PO == "Player.O"

None == "None"

ONGOING == "Ongoing"

DRAW == "Draw"

X_WINS == "Player X wins"

O_WINS == "Player O wins"

\* Player.X.value / Player.O.value
Value(p) == IF p = PX THEN "X" ELSE "O"

\* Player(value): the member whose value is v
Player(v) == IF v = "X" THEN PX ELSE PO

\* the count reported for a board holding an illegal symbol (Python None)
NoCount == -1

Index == 0 .. (Size - 1)

\* self._corners, in list order
_corners == << <<0, 0>>, <<0, 3>>, <<3, 0>>, <<3, 3>> >>

\* faulty variant: only the first corner of the list is recognised
IsCorner_first(row, col) == _corners[1] = <<row, col>>

IsCorner(row, col) == \E k \in 1 .. Len(_corners) : _corners[k] = <<row, col>>

Abs(n) == IF n < 0 THEN -n ELSE n

Min(S) == CHOOSE m \in S : \A n \in S : m <= n

----------------------------------------------------------------------------
(* Grids handed to the constructor *)

\* a Python list of rows, written as a tuple of tuples, indexed from 0
FromRows(rows) ==
    [r \in 0 .. (Len(rows) - 1) |->
        [c \in 0 .. (Len(rows[r + 1]) - 1) |-> rows[r + 1][c + 1]]]

\* initial_state omitted (None): a value that is no list, told apart from
\* every list by its domain
NoGrid == [r \in {-1} |-> << >>]

\* initial_state=[], a list of no rows
EmptyList == FromRows(<< >>)

\* "not initial_state": None and the empty list are both falsy
NotInitialState(state) == DOMAIN state = {-1} \/ DOMAIN state = {}

\* the coordinates a grid has, whatever its shape
CoordsOf(state) == UNION {{<<r, c>> : c \in DOMAIN state[r]} : r \in DOMAIN state}

Fixtures == <<
    \* test_valid_initialization_with_existing_board
    << <<"X", "O", "",  "" >>,
       <<"",  "X", "",  "" >>,
       <<"",  "",  "O", "" >>,
       <<"",  "",  "",  "" >> >>,
    << <<"X", "",  "",  "" >>,
       <<"O", "X", "",  "" >>,
       <<"",  "O", "X", "" >>,
       <<"",  "",  "O", "" >> >>,
    \* test_initialization_with_current_player, board_inconsistent
    << <<"X", "O", "",  "" >>,
       <<"",  "X", "",  "O">>,
       <<"",  "",  "O", "" >>,
       <<"",  "",  "",  "" >> >>,
    \* test_x_and_o_count_with_initial_state
    << <<"X", "O", "X", "" >>,
       <<"O", "X", "",  "" >>,
       <<"",  "",  "O", "X">>,
       <<"",  "",  "",  "" >> >>,
    << <<"X", "O", "X", "O">>,
       <<"O", "X", "O", "X">>,
       <<"X", "O", "X", "O">>,
       <<"",  "",  "",  "" >> >>,
    \* X holds three corners, O three cells of a 2x2 block
    << <<"X", "",  "",  "X">>,
       <<"",  "O", "O", "" >>,
       <<"",  "O", "",  "" >>,
       <<"X", "",  "",  "" >> >>,
    \* X has completed row 0, O holds three cells of row 1
    << <<"X", "X", "X", "X">>,
       <<"O", "O", "O", "" >>,
       <<"",  "",  "",  "" >>,
       <<"",  "",  "",  "" >> >>,
    \* the final board of test_draw_game with three cells still blank
    << <<"X", "O", "X", "O">>,
       <<"O", "X", "O", "X">>,
       <<"O", "X", "O", "X">>,
       <<"X", "",  "",  "" >> >>
>>

GridArgs == {NoGrid} \cup {FromRows(Fixtures[i]) : i \in 1 .. Len(Fixtures)}

PlayerArgs == {None, PX, PO}

\* coordinates offered to make_move: one step outside the board on each side
Coords == -1 .. Size

----------------------------------------------------------------------------
(* Construction *)

\* the fresh board of _initialize_new_board
_initialize_new_board == [r \in Index |-> [c \in Index |-> ""]]

AllCells == {<<r, c>> : r \in Index, c \in Index}

CountSym(state, s) == Cardinality({rc \in CoordsOf(state) : state[rc[1]][rc[2]] = s})

\* faulty variant: the two counters exchanged
_count_moves_swapped(state) ==
    IF \E rc \in CoordsOf(state) : state[rc[1]][rc[2]] \notin {"X", "O", ""}
    THEN <<NoCount, NoCount>>
    ELSE <<CountSym(state, "O"), CountSym(state, "X")>>

_count_moves(state) ==
    IF \E rc \in CoordsOf(state) : state[rc[1]][rc[2]] \notin {"X", "O", ""}
    THEN <<NoCount, NoCount>>
    ELSE <<CountSym(state, "X"), CountSym(state, "O")>>

\* faulty variant: the two counts must be equal
_is_valid_board_equal(state) ==
    /\ Cardinality(DOMAIN state) = Size
    /\ \A r \in DOMAIN state : Cardinality(DOMAIN state[r]) = Size
    /\ LET cnt == _count_moves(state)
       IN  /\ cnt[1] # NoCount
           /\ cnt[1] # 0
           /\ Abs(cnt[1] - cnt[2]) <= 0

_is_valid_board(state) ==
    /\ Cardinality(DOMAIN state) = Size
    /\ \A r \in DOMAIN state : Cardinality(DOMAIN state[r]) = Size
    /\ LET cnt == _count_moves(state)
       IN  /\ cnt[1] # NoCount
           /\ cnt[1] # 0
           /\ Abs(cnt[1] - cnt[2]) <= 1

\* faulty variant: every cell taken as blank, as for a new board
EmptyCellsOf_all(state) == AllCells

\* the cells of a validated grid that are blank
EmptyCellsOf(state) == {rc \in AllCells : state[rc[1]][rc[2]] = ""}

\* faulty variant: X is inferred only when X is strictly behind
InferPlayer_strict(xc, oc) == IF xc < oc THEN PX ELSE PO

\* the current player when the caller names none
InferPlayer(xc, oc) == IF xc <= oc THEN PX ELSE PO

\* faulty variant: the consistency check left out
InconsistentPlayer_never(p, xc, oc) == FALSE

\* faulty variant: a player with as many marks as the opponent is refused too
InconsistentPlayer_geq(p, xc, oc) ==
    \/ (p = PX /\ xc >= oc)
    \/ (p = PO /\ oc >= xc)

\* the caller's current player contradicts the counts
InconsistentPlayer(p, xc, oc) ==
    \/ (p = PX /\ xc > oc)
    \/ (p = PO /\ oc > xc)

----------------------------------------------------------------------------
(* Win detection.  The checks read the board and the counts as they are   *)
(* at the point of the call, so these are passed in: b is self._board,    *)
(* xc / oc the counts, cur self._current_player, w self._winner.          *)

\* TicTacToeAbstract.is_winning_move: "None", "True" or "False"
TicTacToeAbstract_is_winning_move(b, xc, oc, cur, row, col) ==
    LET player    == Value(cur)
        main_diag == Cardinality({i \in Index : b[i][i] = player})
        anti_diag == Cardinality({i \in Index : b[i][Size - 1 - i] = player})
    IN  IF oc < Size /\ xc < Size THEN "None"
        ELSE IF \A i \in Index : b[row][i] = player THEN "True"
        ELSE IF Cardinality({i \in Index : b[i][col] = player}) = Size THEN "True"
        ELSE IF /\ (row = col \/ row + col = Size - 1)
                /\ (main_diag = Size \/ anti_diag = Size) THEN "True"
        ELSE "False"

\* Python truthiness of such a result
Truthy(v) == v = "True"

\* faulty variant: the four cells are not compared with each other
_is_2x2_box_filled_any(b, row, col) == b[row][col] # ""

_is_2x2_box_filled(b, row, col) ==
    /\ Cardinality({b[r][c] : r \in row .. (row + 1), c \in col .. (col + 1)}) = 1
    /\ b[row][col] # ""

Max2(a, c) == IF a >= c THEN a ELSE c

Min2(a, c) == IF a <= c THEN a ELSE c

\* faulty variant: the anchors stop one short of the moved row and column
_is_winning_2x2_move_short(b, row, col) ==
    \E i \in Max2(0, row - 1) .. (Min2(3, row) - 1) :
        \E j \in Max2(0, col - 1) .. (Min2(3, col) - 1) :
            _is_2x2_box_filled(b, i, j)

\* faulty variant: only the block whose top-left cell is the moved cell
_is_winning_2x2_move_own(b, row, col) ==
    _is_2x2_box_filled(b, Min2(2, row), Min2(2, col))

_is_winning_2x2_move(b, row, col) ==
    \E i \in Max2(0, row - 1) .. (Min2(3, row + 1) - 1) :
        \E j \in Max2(0, col - 1) .. (Min2(3, col + 1) - 1) :
            _is_2x2_box_filled(b, i, j)

\* faulty variant: the guard also stops a player holding exactly size marks
TicTacToe4x4_is_winning_move_leq(b, xc, oc, cur, row, col) ==
    LET player_count == IF cur = PX THEN xc ELSE oc
    IN  IF Truthy(TicTacToeAbstract_is_winning_move(b, xc, oc, cur, row, col)) THEN TRUE
        ELSE IF player_count <= Size THEN FALSE
        ELSE IF /\ IsCorner(row, col)
                /\ \A k \in 1 .. Len(_corners) :
                       b[_corners[k][1]][_corners[k][2]] = Value(cur) THEN TRUE
        ELSE _is_winning_2x2_move(b, row, col)

\* TicTacToe4x4.is_winning_move: TRUE or FALSE
TicTacToe4x4_is_winning_move(b, xc, oc, cur, row, col) ==
    LET player_count == IF cur = PX THEN xc ELSE oc
    IN  IF Truthy(TicTacToeAbstract_is_winning_move(b, xc, oc, cur, row, col)) THEN TRUE
        ELSE IF player_count < Size THEN FALSE
        ELSE IF /\ IsCorner(row, col)
                /\ \A k \in 1 .. Len(_corners) :
                       b[_corners[k][1]][_corners[k][2]] = Value(cur) THEN TRUE
        ELSE _is_winning_2x2_move(b, row, col)

\* the result of iteration i of the row / column loop of check_winner
RowColWinnerAt(b, i) ==
    IF b[i][0] # "" /\ \A j \in 1 .. (Size - 1) : b[i][j] = b[i][0] THEN Player(b[i][0])
    ELSE IF b[0][i] # "" /\ \A j \in 1 .. (Size - 1) : b[j][i] = b[0][i] THEN Player(b[0][i])
    ELSE None

\* faulty variant: the pre-check also stops a board where a player holds
\* exactly size marks
TicTacToeAbstract_check_winner_leq(b, xc, oc, w) ==
    LET hits == {i \in Index : RowColWinnerAt(b, i) # None}
    IN  IF w # None THEN w
        ELSE IF oc <= Size /\ xc <= Size THEN None
        ELSE IF hits # {} THEN RowColWinnerAt(b, Min(hits))
        ELSE IF b[0][0] # "" /\ \A i \in 1 .. (Size - 1) : b[i][i] = b[0][0]
             THEN Player(b[0][0])
        ELSE IF /\ b[0][Size - 1] # ""
                /\ \A i \in 1 .. (Size - 1) : b[i][Size - 1 - i] = b[0][Size - 1]
             THEN Player(b[0][Size - 1])
        ELSE None

\* TicTacToeAbstract.check_winner
TicTacToeAbstract_check_winner(b, xc, oc, w) ==
    LET hits == {i \in Index : RowColWinnerAt(b, i) # None}
    IN  IF w # None THEN w
        ELSE IF oc < Size /\ xc < Size THEN None
        ELSE IF hits # {} THEN RowColWinnerAt(b, Min(hits))
        ELSE IF b[0][0] # "" /\ \A i \in 1 .. (Size - 1) : b[i][i] = b[0][0]
             THEN Player(b[0][0])
        ELSE IF /\ b[0][Size - 1] # ""
                /\ \A i \in 1 .. (Size - 1) : b[i][Size - 1 - i] = b[0][Size - 1]
             THEN Player(b[0][Size - 1])
        ELSE None

\* faulty variant: the anchors visited column by column
Anchor_columns(k) == <<k % 3, k \div 3>>

\* the 2x2 anchors in the order the loops of _find_2x2_winner visit them
Anchor(k) == <<k \div 3, k % 3>>

\* faulty variant: the scan leaves out the last row of anchors
_find_2x2_winner_short(b) ==
    LET hits == {k \in 0 .. 5 : /\ b[Anchor(k)[1]][Anchor(k)[2]] # ""
                                /\ _is_2x2_box_filled(b, Anchor(k)[1], Anchor(k)[2])}
    IN  IF hits = {} THEN None
        ELSE Player(b[Anchor(Min(hits))[1]][Anchor(Min(hits))[2]])

_find_2x2_winner(b) ==
    LET hits == {k \in 0 .. 8 : /\ b[Anchor(k)[1]][Anchor(k)[2]] # ""
                                /\ _is_2x2_box_filled(b, Anchor(k)[1], Anchor(k)[2])}
    IN  IF hits = {} THEN None
        ELSE Player(b[Anchor(Min(hits))[1]][Anchor(Min(hits))[2]])

\* faulty variant: the last corner of the list is not compared
TicTacToe4x4_check_winner_three(b, xc, oc, w) ==
    LET standard_winner == TicTacToeAbstract_check_winner(b, xc, oc, w)
        corner_value    == b[_corners[1][1]][_corners[1][2]]
    IN  IF standard_winner # None THEN standard_winner
        ELSE IF /\ corner_value # ""
                /\ \A k \in 1 .. (Len(_corners) - 1) :
                       b[_corners[k][1]][_corners[k][2]] = corner_value
             THEN Player(corner_value)
        ELSE _find_2x2_winner(b)

\* TicTacToe4x4.check_winner
TicTacToe4x4_check_winner(b, xc, oc, w) ==
    LET standard_winner == TicTacToeAbstract_check_winner(b, xc, oc, w)
        corner_value    == b[_corners[1][1]][_corners[1][2]]
    IN  IF standard_winner # None THEN standard_winner
        ELSE IF /\ corner_value # ""
                /\ \A k \in 1 .. Len(_corners) :
                       b[_corners[k][1]][_corners[k][2]] = corner_value
             THEN Player(corner_value)
        ELSE _find_2x2_winner(b)

----------------------------------------------------------------------------
(* Queries *)

\* faulty variant: a full board still counts as having moves left
any_moves_left_leq == (oCount + xCount) <= Size * Size

any_moves_left == (oCount + xCount) < Size * Size

\* faulty variant: a full board without a winner is not over
is_game_over_winner_only == winner # None

is_game_over == winner # None \/ ~ any_moves_left

\* faulty variant: fullness tested against size instead of size squared
get_game_state_size ==
    IF winner = PX THEN X_WINS
    ELSE IF winner = PO THEN O_WINS
    ELSE IF oCount + xCount = Size THEN DRAW
    ELSE ONGOING

get_game_state ==
    IF winner = PX THEN X_WINS
    ELSE IF winner = PO THEN O_WINS
    ELSE IF oCount + xCount = Size * Size THEN DRAW
    ELSE ONGOING

valid_moves == emptyCells

----------------------------------------------------------------------------
(* Operations *)

\* the second engine before its constructor has returned
NoEngine ==
    [constructed |-> FALSE, board |-> _initialize_new_board, emptyCells |-> {},
     xCount |-> 0, oCount |-> 0, currentPlayer |-> PX, winner |-> None,
     boardRef |-> "own", moves |-> 0]

\* both engines hold the caller's list object as their board
Aliased ==
    /\ constructed /\ boardRef = "caller"
    /\ other.constructed /\ other.boardRef = "caller"

\* faulty variant: the tally has no key for a draw
ZeroResults_no_draw == [state \in {X_WINS, O_WINS} |-> 0]

\* the tally of play_tournament before any game
ZeroResults == [state \in {DRAW, X_WINS, O_WINS} |-> 0]

\* no TicTacToeGame object
NoGame ==
    [pc |-> "none", ai_game |-> FALSE, ai_player |-> None,
     current_player |-> None, move |-> << >>, marks |-> 0,
     tournament |-> FALSE, human_vs_human |-> FALSE, num_games |-> 0, i |-> 0,
     results |-> ZeroResults, error |-> None]

Init ==
    /\ constructed = FALSE
    /\ board = _initialize_new_board
    /\ emptyCells = {}
    /\ xCount = 0
    /\ oCount = 0
    /\ currentPlayer = PX
    /\ winner = None
    /\ lastOp = "none"
    /\ ret = None
    /\ error = None
    /\ moves = 0
    /\ boardRef = "own"
    /\ other = NoEngine
    /\ game = NoGame

\* faulty variant: O starts by default
DefaultPlayer_O(player) == IF player = None THEN PO ELSE player

\* the player an empty engine starts with
DefaultPlayer(player) == IF player = None THEN PX ELSE player

\* TicTacToe4x4(initial_state, current_player); a ValueError leaves no engine
Construct(state, player) ==
    /\ lastOp = "none"
    /\ lastOp' = "construct"
    /\ ret' = None
    /\ moves' = 0
    /\ UNCHANGED other
    /\ IF NotInitialState(state)
       THEN /\ constructed' = TRUE
            /\ boardRef' = "own"
            /\ board' = _initialize_new_board
            /\ xCount' = 0
            /\ oCount' = 0
            /\ emptyCells' = AllCells
            /\ currentPlayer' = DefaultPlayer(player)
            /\ winner' = None
            /\ error' = None
       ELSE IF ~ _is_valid_board(state)
       THEN /\ error' = "ValueError"
            /\ UNCHANGED <<constructed, engine, boardRef>>
       ELSE LET cnt == _count_moves(state)
            IN  IF player # None /\ InconsistentPlayer(player, cnt[1], cnt[2])
                THEN /\ error' = "ValueError"
                     /\ UNCHANGED <<constructed, engine, boardRef>>
                ELSE /\ constructed' = TRUE
                     /\ boardRef' = "caller"
                     /\ board' = state
                     /\ emptyCells' = EmptyCellsOf(state)
                     /\ xCount' = cnt[1]
                     /\ oCount' = cnt[2]
                     /\ currentPlayer' = IF player = None
                                         THEN InferPlayer(cnt[1], cnt[2])
                                         ELSE player
                     /\ winner' = TicTacToe4x4_check_winner(state, cnt[1], cnt[2], None)
                     /\ error' = None

\* faulty variant: only the range is tested, not the occupancy
_is_valid_move_in_range(row, col) == row \in Index /\ col \in Index

\* faulty variant: no move is accepted once a winner exists
_is_valid_move_ongoing(row, col) == winner = None /\ <<row, col>> \in emptyCells

_is_valid_move(row, col) == <<row, col>> \in emptyCells

\* faulty variant: the turn is not passed
Opponent_same(p) == p

\* the other player
Opponent(p) == IF p = PX THEN PO ELSE PX

\* a list index as Python resolves it: a negative index counts from the end
PyIndex(i) == IF i < 0 THEN i + Size ELSE i

InPyRange(i) == i >= -Size /\ i < Size

\* make_move(row, col)
MakeMove(row, col) ==
    /\ constructed
    /\ lastOp' = "make_move"
    /\ UNCHANGED <<constructed, boardRef>>
    /\ IF ~ _is_valid_move(row, col)
       THEN /\ ret' = "False"
            /\ error' = None
            /\ UNCHANGED <<engine, moves>>
       ELSE IF ~ InPyRange(row) \/ ~ InPyRange(col)
       THEN /\ ret' = None
            /\ error' = "IndexError"
            /\ UNCHANGED <<engine, moves>>
       ELSE LET b1 == [board EXCEPT ![PyIndex(row)][PyIndex(col)] = Value(currentPlayer)]
                x1 == IF currentPlayer = PX THEN xCount + 1 ELSE xCount
                o1 == IF currentPlayer = PX THEN oCount ELSE oCount + 1
            IN  IF <<row, col>> \notin emptyCells
                THEN /\ board' = b1
                     /\ ret' = None
                     /\ error' = "KeyError"
                     /\ UNCHANGED <<emptyCells, xCount, oCount, currentPlayer, winner, moves>>
                ELSE /\ board' = b1
                     /\ emptyCells' = emptyCells \ {<<row, col>>}
                     /\ xCount' = x1
                     /\ oCount' = o1
                     /\ winner' = IF TicTacToe4x4_is_winning_move(b1, x1, o1, currentPlayer, row, col)
                                  THEN currentPlayer
                                  ELSE winner
                     /\ currentPlayer' = Opponent(currentPlayer)
                     /\ ret' = "True"
                     /\ error' = None
                     /\ moves' = moves + 1
    /\ other' = IF Aliased THEN [other EXCEPT !.board = board'] ELSE other

\* faulty variant: the winner survives the reset
Reset_keeps_winner ==
    /\ constructed
    /\ UNCHANGED <<constructed, winner>>
    /\ board' = _initialize_new_board
    /\ boardRef' = "own"
    /\ UNCHANGED other
    /\ xCount' = 0
    /\ oCount' = 0
    /\ emptyCells' = AllCells
    /\ currentPlayer' = PX
    /\ lastOp' = "reset"
    /\ ret' = None
    /\ error' = None
    /\ moves' = 0

\* reset()
Reset ==
    /\ constructed
    /\ UNCHANGED constructed
    /\ board' = _initialize_new_board
    /\ boardRef' = "own"
    /\ UNCHANGED other
    /\ xCount' = 0
    /\ oCount' = 0
    /\ emptyCells' = AllCells
    /\ currentPlayer' = PX
    /\ winner' = None
    /\ lastOp' = "reset"
    /\ ret' = None
    /\ error' = None
    /\ moves' = 0

----------------------------------------------------------------------------
(* The second engine.  Its constructor is handed the very list object the  *)
(* first engine was built from ("same"), a copy of that list ("copy"), or  *)
(* nothing ("none").  _initialize_from_state stores the list it is handed, *)
(* so after "same" the two engines hold one list object: a cell written by *)
(* one make_move is read by both.                                          *)

\* TicTacToe4x4(state, player): the exception raised and the engine returned
NewEngine(state, player, ref) ==
    IF NotInitialState(state)
    THEN [error |-> None,
          e |-> [NoEngine EXCEPT !.constructed = TRUE,
                                 !.emptyCells = AllCells,
                                 !.currentPlayer = DefaultPlayer(player)]]
    ELSE IF ~ _is_valid_board(state)
    THEN [error |-> "ValueError", e |-> NoEngine]
    ELSE LET cnt == _count_moves(state)
         IN  IF player # None /\ InconsistentPlayer(player, cnt[1], cnt[2])
             THEN [error |-> "ValueError", e |-> NoEngine]
             ELSE [error |-> None,
                   e |-> [constructed |-> TRUE,
                          board |-> state,
                          emptyCells |-> EmptyCellsOf(state),
                          xCount |-> cnt[1],
                          oCount |-> cnt[2],
                          currentPlayer |-> IF player = None
                                            THEN InferPlayer(cnt[1], cnt[2])
                                            ELSE player,
                          winner |-> TicTacToe4x4_check_winner(state, cnt[1], cnt[2], None),
                          boardRef |-> ref,
                          moves |-> 0]]

OtherArgs == {"same", "copy", "none"}

\* the second constructor call, made right after the first has returned an
\* engine built from the caller's list
ConstructOther(how, player) ==
    /\ constructed /\ boardRef = "caller"
    /\ lastOp = "construct"
    /\ ~ other.constructed
    /\ LET new == NewEngine(IF how = "none" THEN NoGrid ELSE board, player,
                            IF how = "same" THEN "caller" ELSE "own")
       IN  /\ other' = new.e
           /\ error' = new.error
    /\ lastOp' = "other_construct"
    /\ ret' = None
    /\ UNCHANGED <<constructed, engine, moves, boardRef>>

\* make_move(row, col) on the second engine
OtherMakeMove(row, col) ==
    /\ other.constructed
    /\ lastOp' = "other_make_move"
    /\ error' = None
    /\ UNCHANGED <<constructed, emptyCells, xCount, oCount, currentPlayer, winner,
                   moves, boardRef>>
    /\ IF <<row, col>> \notin other.emptyCells
       THEN /\ ret' = "False"
            /\ UNCHANGED <<other, board>>
       ELSE LET cur == other.currentPlayer
                b1  == [other.board EXCEPT ![row][col] = Value(cur)]
                x1  == IF cur = PX THEN other.xCount + 1 ELSE other.xCount
                o1  == IF cur = PX THEN other.oCount ELSE other.oCount + 1
            IN  /\ other' = [other EXCEPT
                                !.board = b1,
                                !.emptyCells = @ \ {<<row, col>>},
                                !.xCount = x1,
                                !.oCount = o1,
                                !.winner = IF TicTacToe4x4_is_winning_move(b1, x1, o1, cur, row, col)
                                           THEN cur
                                           ELSE @,
                                !.currentPlayer = Opponent(cur),
                                !.moves = @ + 1]
                /\ board' = IF Aliased THEN b1 ELSE board
                /\ ret' = "True"

\* reset() on the second engine
OtherReset ==
    /\ other.constructed
    /\ other' = [NoEngine EXCEPT !.constructed = TRUE, !.emptyCells = AllCells]
    /\ lastOp' = "other_reset"
    /\ ret' = None
    /\ error' = None
    /\ UNCHANGED <<constructed, engine, moves, boardRef>>

----------------------------------------------------------------------------
(* Spec: one engine, constructed with any of the grids and players above, *)
(* then driven by arbitrary make_move and reset calls.                     *)

DoConstruct == UNCHANGED game /\ \E state \in GridArgs : \E player \in PlayerArgs : Construct(state, player)

DoMove == UNCHANGED game /\ moves < MaxMoves /\ \E row \in Coords : \E col \in Coords : MakeMove(row, col)

DoReset == UNCHANGED game /\ Reset

Next == DoConstruct \/ DoMove \/ DoReset

Spec == Init /\ [][Next]_vars

----------------------------------------------------------------------------
(* SpecPlay: a game played from the empty default engine by make_move      *)
(* alone.  It opens with the first moves of test_draw_game and leaves the  *)
(* last FreeMoves moves to any coordinates.                                *)

\* the move list of test_draw_game
Opening == << <<0, 0>>, <<0, 1>>, <<0, 2>>, <<0, 3>>,
              <<1, 1>>, <<1, 0>>, <<1, 3>>, <<1, 2>>,
              <<2, 1>>, <<2, 0>>, <<2, 3>>, <<2, 2>>,
              <<3, 0>>, <<3, 1>>, <<3, 2>>, <<3, 3>> >>

OpeningLen == Len(Opening) - FreeMoves

ConstructDefault == UNCHANGED game /\ Construct(NoGrid, None)

\* _play_moves(moves, alternate=True), one move per step
PlayOpening ==
    /\ UNCHANGED game
    /\ moves < OpeningLen
    /\ MakeMove(Opening[moves + 1][1], Opening[moves + 1][2])

PlayFree ==
    /\ UNCHANGED game
    /\ moves >= OpeningLen
    /\ \E row \in Coords : \E col \in Coords : MakeMove(row, col)

NextPlay == ConstructDefault \/ PlayOpening \/ PlayFree

SpecPlay == Init /\ [][NextPlay]_vars

\* SpecTwo: two engines, the second built while the first holds its grid,
\* then make_move and reset calls on either
TwoConstructOther == UNCHANGED game /\ \E how \in OtherArgs : \E player \in PlayerArgs : ConstructOther(how, player)

TwoMove ==
    /\ UNCHANGED game
    /\ moves + other.moves < MaxTwoMoves
    /\ \E row \in Coords : \E col \in Coords : MakeMove(row, col)

TwoOtherMove ==
    /\ UNCHANGED game
    /\ moves + other.moves < MaxTwoMoves
    /\ \E row \in Coords : \E col \in Coords : OtherMakeMove(row, col)

DoOtherReset == UNCHANGED game /\ OtherReset

NextTwo == DoConstruct \/ TwoConstructOther \/ TwoMove \/ TwoOtherMove \/ DoReset \/ DoOtherReset

SpecTwo == Init /\ [][NextTwo]_vars

\* SpecAnyStart: the games of SpecFill, played on an empty engine built with
\* any starting player
ConstructEmpty == UNCHANGED game /\ \E player \in PlayerArgs : Construct(NoGrid, player)

NextAnyStart == ConstructEmpty \/ PlayOpening \/ PlayFree \/ DoReset

SpecAnyStart == Init /\ [][NextAnyStart]_vars

\* SpecBlocks: a game on the default engine that opens with X on three cells
\* of row 0 and on (1, 0) and O far from them, then BlockFreeMoves moves to
\* any coordinates: a player can then hold three cells of each of two
\* adjacent 2x2 blocks before the move that fills their common cell
BlockOpening == << <<0, 0>>, <<3, 0>>, <<0, 1>>, <<3, 1>>,
                   <<0, 2>>, <<3, 3>>, <<1, 0>> >>

PlayBlockOpening ==
    /\ UNCHANGED game
    /\ moves < Len(BlockOpening)
    /\ MakeMove(BlockOpening[moves + 1][1], BlockOpening[moves + 1][2])

PlayBlockFree ==
    /\ UNCHANGED game
    /\ moves >= Len(BlockOpening)
    /\ moves < Len(BlockOpening) + BlockFreeMoves
    /\ \E row \in Coords : \E col \in Coords : MakeMove(row, col)

NextBlocks == ConstructDefault \/ PlayBlockOpening \/ PlayBlockFree

SpecBlocks == Init /\ [][NextBlocks]_vars

\* SpecFill: the games of SpecPlay, with reset() allowed at any point, after
\* which the game is played again from the start
NextFill == NextPlay \/ DoReset

SpecFill == Init /\ [][NextFill]_vars

----------------------------------------------------------------------------
(* SpecGame: the TicTacToeGame of game.py.  game.pc is the place its code  *)
(* has reached: "idle" between calls, "for" at the head of the loop of     *)
(* play_tournament, "while" at the test of the loop of play_game,          *)
(* "_ai_move" and "_human_move" inside these calls, "make_move" at the     *)
(* call of line 47, "return" when play_game has returned, "raised" when an *)
(* exception has left the method.  The text a human types and the cell     *)
(* random.choice returns are inputs; the first cells played in a game      *)
(* follow GameScript and the last GameFreeMoves are free.  The             *)
(* local "move" is dead after line 47 and is cleared there; game.marks is  *)
(* the number of marks on the board when the iteration began.              *)

engineVars == <<constructed, board, emptyCells, xCount, oCount, currentPlayer,
                winner, lastOp, ret, error, moves, boardRef, other>>

\* a game that ends in a draw; after ten moves X holds three cells of the
\* main diagonal and O three cells of the other one
GameScript == << <<0, 0>>, <<0, 3>>, <<1, 1>>, <<1, 2>>,
                 <<2, 2>>, <<2, 1>>, <<0, 1>>, <<0, 2>>,
                 <<1, 3>>, <<1, 0>>, <<3, 0>>, <<3, 3>>,
                 <<2, 0>>, <<2, 3>>, <<3, 2>>, <<3, 1>> >>

GameScriptLen == Len(GameScript) - GameFreeMoves

\* the cells a mover may pick at this point of the game
Scripted(rc) == moves >= GameScriptLen \/ rc = GameScript[moves + 1]

MarksOn(b) == CountSym(b, "X") + CountSym(b, "O")

\* TicTacToeGame()
TicTacToeGame_init ==
    /\ game.pc = "none"
    /\ Construct(NoGrid, None)
    /\ game' = [NoGame EXCEPT !.pc = "idle"]

\* play_game(ai_game, ai_starts) down to the loop, called with the
\* TicTacToeGame in state g
EnterPlayGame(g, ai_game, ai_starts) ==
    /\ Reset
    /\ game' = [g EXCEPT !.pc = "while",
                         !.ai_game = ai_game,
                         !.ai_player = IF ai_game
                                       THEN (IF ai_starts THEN PX ELSE PO)
                                       ELSE @,
                         !.current_player = None,
                         !.move = << >>,
                         !.marks = 0]

\* play_game called from the menu
play_game ==
    /\ game.pc = "idle"
    /\ \E ai_game \in BOOLEAN : \E ai_starts \in BOOLEAN :
           EnterPlayGame(game, ai_game, ai_starts)

\* play_tournament(num_games, human_vs_human) down to its loop
play_tournament ==
    /\ game.pc = "idle"
    /\ \E num_games \in 0 .. MaxGames : \E human_vs_human \in BOOLEAN :
           game' = [game EXCEPT !.pc = "for",
                                !.tournament = TRUE,
                                !.num_games = num_games,
                                !.human_vs_human = human_vs_human,
                                !.i = 0,
                                !.results = ZeroResults]
    /\ UNCHANGED engineVars

\* for i in range(num_games): the next game is entered, or the loop is left
ForGame ==
    /\ game.pc = "for"
    /\ IF game.i < game.num_games
       THEN EnterPlayGame(game, ~ game.human_vs_human, game.i % 2 = 0)
       ELSE /\ game' = [game EXCEPT !.pc = "idle",
                                    !.tournament = FALSE,
                                    !.num_games = 0,
                                    !.human_vs_human = FALSE,
                                    !.i = 0,
                                    !.results = ZeroResults]
            /\ UNCHANGED engineVars

\* the test of the while loop, and lines 38 to 41 when it holds
LoopTest ==
    /\ game.pc = "while"
    /\ game' = IF get_game_state = ONGOING
               THEN [game EXCEPT !.current_player = currentPlayer,
                                 !.marks = MarksOn(board),
                                 !.pc = IF game.ai_game /\ currentPlayer = game.ai_player
                                        THEN "_ai_move"
                                        ELSE "_human_move"]
               ELSE [game EXCEPT !.pc = "return"]
    /\ UNCHANGED engineVars

\* move = self._ai_move(): random.choice(self.game.valid_moves)
_ai_move ==
    /\ game.pc = "_ai_move"
    /\ \E rc \in valid_moves :
           /\ Scripted(rc)
           /\ game' = [game EXCEPT !.move = rc, !.pc = "make_move"]
    /\ UNCHANGED engineVars

\* faulty variant: the cell typed is returned without being played
_human_move_peek(numeric, row, col) ==
    /\ game.pc = "_human_move"
    /\ IF numeric /\ 0 <= row /\ row < Size /\ 0 <= col /\ col < Size
          /\ _is_valid_move(row, col)
       THEN /\ Scripted(<<row, col>>)
            /\ game' = [game EXCEPT !.move = <<row, col>>, !.pc = "make_move"]
            /\ UNCHANGED engineVars
       ELSE UNCHANGED vars

\* one pass of the loop of _human_move; numeric is FALSE when int() raises
\* ValueError on the text typed
_human_move(numeric, row, col) ==
    /\ game.pc = "_human_move"
    /\ IF numeric /\ 0 <= row /\ row < Size /\ 0 <= col /\ col < Size
       THEN /\ <<row, col>> \in emptyCells => Scripted(<<row, col>>)
            /\ MakeMove(row, col)
            /\ game' = IF error' # None
                       THEN [game EXCEPT !.pc = "raised", !.error = error']
                       ELSE IF ret' = "True"
                       THEN [game EXCEPT !.move = <<row, col>>, !.pc = "make_move"]
                       ELSE game
       ELSE UNCHANGED vars

HumanInput ==
    \E numeric \in BOOLEAN : \E row \in Coords : \E col \in Coords :
        _human_move(numeric, row, col)

\* self.game.make_move(*move), line 47
LoopMakeMove ==
    /\ game.pc = "make_move"
    /\ MakeMove(game.move[1], game.move[2])
    /\ game' = IF error' # None
               THEN [game EXCEPT !.pc = "raised", !.error = error']
               ELSE [game EXCEPT !.pc = "while", !.move = << >>]

\* play_game returns to the menu
ReturnToMenu ==
    /\ game.pc = "return"
    /\ ~ game.tournament
    /\ game' = [game EXCEPT !.pc = "idle"]
    /\ UNCHANGED engineVars

\* results[self.game.get_game_state()] += 1, line 110
Tally ==
    /\ game.pc = "return"
    /\ game.tournament
    /\ game' = IF get_game_state \in DOMAIN game.results
               THEN [game EXCEPT !.results[get_game_state] = @ + 1,
                                 !.i = @ + 1,
                                 !.pc = "for"]
               ELSE [game EXCEPT !.pc = "raised", !.error = "KeyError"]
    /\ UNCHANGED engineVars

NextGame ==
    \/ TicTacToeGame_init
    \/ play_game
    \/ play_tournament
    \/ ForGame
    \/ LoopTest
    \/ _ai_move
    \/ HumanInput
    \/ LoopMakeMove
    \/ ReturnToMenu
    \/ Tally

SpecGame == Init /\ [][NextGame]_vars

\* a prompt answered with a legal cell
HumanLegal ==
    /\ \E row \in Index : \E col \in Index : _human_move(TRUE, row, col)
    /\ game'.pc = "make_move"

\* SpecGame where the code of play_game runs on and a human who is prompted
\* again and again ends up typing a legal cell
FairGame ==
    /\ SpecGame
    /\ WF_vars(LoopTest)
    /\ WF_vars(_ai_move)
    /\ WF_vars(LoopMakeMove)
    /\ WF_vars(HumanLegal)

----------------------------------------------------------------------------
(* Vocabulary of the properties, stated on the board itself *)

Mark(b, rc) == b[rc[1]][rc[2]]

Occupied(row, col) == <<row, col>> \in AllCells /\ board[row][col] # ""

OutOfRange(row, col) == <<row, col>> \notin AllCells

Rows == {{<<r, c>> : c \in Index} : r \in Index}

Columns == {{<<r, c>> : r \in Index} : c \in Index}

Diagonals == {{<<i, i>> : i \in Index}, {<<i, Size - 1 - i>> : i \in Index}}

CornerSet == {<<0, 0>>, <<0, Size - 1>>, <<Size - 1, 0>>, <<Size - 1, Size - 1>>}

Blocks == {{<<r, c>>, <<r, c + 1>>, <<r + 1, c>>, <<r + 1, c + 1>>} :
              r \in 0 .. (Size - 2), c \in 0 .. (Size - 2)}

Shapes == Rows \cup Columns \cup Diagonals \cup {CornerSet} \cup Blocks

UniformFor(b, S, v) == \A rc \in S : Mark(b, rc) = v

AnyUniformShape(b) == \E S \in Shapes : \E v \in {"X", "O"} : UniformFor(b, S, v)

BoardFull(b) == \A rc \in AllCells : Mark(b, rc) # ""

FreshEngine ==
    /\ \A rc \in AllCells : Mark(board, rc) = ""
    /\ emptyCells = AllCells
    /\ Cardinality(emptyCells) = Size * Size
    /\ xCount = 0
    /\ oCount = 0
    /\ currentPlayer = PX
    /\ winner = None

----------------------------------------------------------------------------
(* Two further specifications over wider families of supplied grids.      *)
(*   SpecWin:   the constructor applied to the grids of Spec and, for      *)
(*              every shape, every cell and both marks, to the grid where  *)
(*              the mark holds the shape (but for that cell, when the cell *)
(*              lies in it) against three marks of the opponent, so that a *)
(*              shape is held, or completed by one move, with exactly Size *)
(*              marks; then at most MaxWinMoves make_move calls.           *)
(*   SpecGrids: the constructor alone, applied to all of these, to every   *)
(*              grid whose four rows are taken from RowPatterns, and to    *)
(*              grids the constructor is to refuse.                        *)

RowMajor(rc) == rc[1] * Size + rc[2]

\* the n first cells of S in row-major order
FirstCells(S, n) == {rc \in S : Cardinality({q \in S : RowMajor(q) < RowMajor(rc)}) < n}

OtherMark(v) == IF v = "X" THEN "O" ELSE "X"

NearWinGrid(S, m, v) ==
    [r \in Index |-> [c \in Index |->
        IF <<r, c>> \in S \ {m} THEN v
        ELSE IF <<r, c>> \in FirstCells(AllCells \ S, Size - 1) THEN OtherMark(v)
        ELSE ""]]

NearWinGrids == {NearWinGrid(S, m, v) : S \in Shapes, m \in AllCells, v \in {"X", "O"}}

RowPatterns == { <<"",  "",  "",  "" >>,
                 <<"X", "X", "X", "X">>,
                 <<"O", "O", "O", "O">>,
                 <<"X", "X", "O", "O">>,
                 <<"X", "O", "O", "X">>,
                 <<"X", "O", "X", "" >> }

PatternGrids == {FromRows(<<r0, r1, r2, r3>>) :
                    r0 \in RowPatterns, r1 \in RowPatterns,
                    r2 \in RowPatterns, r3 \in RowPatterns}

BadGrids == {
    \* test_invalid_board_state: incorrect size, invalid character,
    \* too many X moves, too many O moves
    FromRows(<< <<"",  "X", "X">>,
                <<"O", "O", "" >>,
                <<"",  "",  "" >> >>),
    FromRows(<< <<"X", "O", "",  "" >>,
                <<"",  "X", "",  "" >>,
                <<"",  "A", "O", "" >>,
                <<"",  "",  "",  "" >> >>),
    FromRows(<< <<"X", "O", "X", "X">>,
                <<"X", "X", "X", "X">>,
                <<"O", "X", "O", "X">>,
                <<"X", "X", "X", "X">> >>),
    FromRows(<< <<"X", "O", "X", "O">>,
                <<"X", "O", "O", "X">>,
                <<"O", "X", "O", "O">>,
                <<"O", "O", "O", "O">> >>),
    \* four rows, one of them short; five rows; four rows of five cells
    FromRows(<< <<"X", "O", "",  "" >>,
                <<"",  "X", "" >>,
                <<"",  "",  "O", "" >>,
                <<"",  "",  "",  "" >> >>),
    FromRows(<< <<"X", "O", "",  "" >>,
                <<"",  "X", "",  "" >>,
                <<"",  "",  "O", "" >>,
                <<"",  "",  "",  "" >>,
                <<"",  "",  "",  "" >> >>),
    FromRows(<< <<"X", "O", "",  "",  "" >>,
                <<"",  "X", "",  "",  "" >>,
                <<"",  "",  "O", "",  "" >>,
                <<"",  "",  "",  "",  "" >> >>),
    \* a single O and no X
    FromRows(<< <<"O", "",  "",  "" >>,
                <<"",  "",  "",  "" >>,
                <<"",  "",  "",  "" >>,
                <<"",  "",  "",  "" >> >>),
    \* the empty list
    EmptyList }

WinGridArgs == GridArgs \cup NearWinGrids

ConstructNearWin == UNCHANGED game /\ \E state \in WinGridArgs : \E player \in PlayerArgs : Construct(state, player)

MoveNearWin == UNCHANGED game /\ moves < MaxWinMoves /\ \E row \in Coords : \E col \in Coords : MakeMove(row, col)

NextWin == ConstructNearWin \/ MoveNearWin

SpecWin == Init /\ [][NextWin]_vars

\* grids on which two checks of TicTacToe4x4.check_winner have different
\* owners and no row, column or diagonal is uniform
TieGrids == {
    \* the corners against a 2x2 block
    FromRows(<< <<"X", "",  "",  "X">>,
                <<"",  "O", "O", "" >>,
                <<"",  "O", "O", "" >>,
                <<"X", "",  "",  "X">> >>),
    FromRows(<< <<"O", "",  "",  "O">>,
                <<"",  "X", "X", "" >>,
                <<"",  "X", "X", "" >>,
                <<"O", "",  "",  "O">> >>),
    \* two 2x2 blocks: the one met first in row-major order, the other met
    \* first in column-major order
    FromRows(<< <<"",  "",  "O", "O">>,
                <<"",  "",  "O", "O">>,
                <<"X", "X", "",  "" >>,
                <<"X", "X", "",  "" >> >>),
    FromRows(<< <<"",  "",  "X", "X">>,
                <<"",  "",  "X", "X">>,
                <<"O", "O", "",  "" >>,
                <<"O", "O", "",  "" >> >>) }

AllGridArgs == WinGridArgs \cup PatternGrids \cup BadGrids \cup TieGrids

ConstructGrid == UNCHANGED game /\ \E state \in AllGridArgs : \E player \in PlayerArgs : Construct(state, player)

SpecGrids == Init /\ [][ConstructGrid]_vars

----------------------------------------------------------------------------
(* Properties *)

\* C1: make_move on a coordinate outside the board, or on an occupied cell,
\* returns False, raises nothing, and leaves board, emptyCells, xCount,
\* oCount, currentPlayer and winner as they were.
C1_IllegalMoveIsNoOp ==
    [][\A row \in Coords : \A col \in Coords :
          (MakeMove(row, col) /\ (OutOfRange(row, col) \/ Occupied(row, col)))
              => (ret' = "False" /\ error' = None /\ engine' = engine)]_vars

C1_Witness ==
    /\ constructed
    /\ lastOp = "make_move"
    /\ ret = "False"
    /\ xCount + oCount > 0

\* C2: once the winner is a player, no later make_move changes it; only
\* reset clears it.
C2_WinnerPermanent ==
    [][(constructed /\ winner # None /\ lastOp' = "make_move") => winner' = winner]_vars

\* C3: a make_move that returns True puts the mover's mark on (row, col),
\* changes no other cell, removes exactly (row, col) from the valid moves,
\* adds one to the mover's count only, and flips currentPlayer.
C3_SuccessfulMove ==
    [][\A row \in Coords : \A col \in Coords :
          (MakeMove(row, col) /\ ret' = "True") =>
              /\ <<row, col>> \in AllCells
              /\ board'[row][col] = Value(currentPlayer)
              /\ \A rc \in AllCells \ {<<row, col>>} : Mark(board', rc) = Mark(board, rc)
              /\ emptyCells' = emptyCells \ {<<row, col>>}
              /\ Cardinality(emptyCells') = Cardinality(emptyCells) - 1
              /\ xCount' = xCount + (IF currentPlayer = PX THEN 1 ELSE 0)
              /\ oCount' = oCount + (IF currentPlayer = PO THEN 1 ELSE 0)
              /\ currentPlayer' \in {PX, PO} \ {currentPlayer}]_vars

C3_Witness ==
    /\ constructed
    /\ lastOp = "make_move"
    /\ ret = "True"
    /\ moves >= 2

\* C4: a coordinate is in emptyCells exactly when its cell of the board is
\* blank, in every state of an engine built empty or from a grid and driven
\* by make_move and reset.
C4_EmptyCellsInSync ==
    constructed =>
        /\ emptyCells \subseteq AllCells
        /\ \A rc \in AllCells : (rc \in emptyCells) <=> (Mark(board, rc) = "")

C4_Witness ==
    /\ constructed
    /\ moves > 0
    /\ xCount + oCount > moves
    /\ emptyCells # {}

\* C5: xCount + oCount + |emptyCells| = size * size, and the counts are the
\* numbers of X and O marks on the board.
C5_CountsMatchBoard ==
    constructed =>
        /\ xCount + oCount + Cardinality(emptyCells) = Size * Size
        /\ xCount = Cardinality({rc \in AllCells : Mark(board, rc) = "X"})
        /\ oCount = Cardinality({rc \in AllCells : Mark(board, rc) = "O"})

C5_Witness ==
    /\ constructed
    /\ moves > 0
    /\ xCount + oCount > moves
    /\ xCount # oCount

\* C6: the counts differ by at most one and the player to move has made no
\* more moves than the opponent.
C6_TurnBalance ==
    constructed =>
        /\ Abs(xCount - oCount) <= 1
        /\ (currentPlayer = PO => (xCount - oCount) \in {0, 1})
        /\ (currentPlayer = PX => (oCount - xCount) \in {0, 1})

C6_Witness ==
    /\ constructed
    /\ moves > 0
    /\ currentPlayer = PX
    /\ oCount = xCount + 1

\* C7: the engine constructed with no grid and no starting player has all
\* cells blank, size * size valid moves, zero counts, X to move, no winner
\* and game state Ongoing.
C7_FreshDefaultEngine ==
    [][Construct(NoGrid, None) =>
          (constructed' /\ error' = None /\ FreshEngine' /\ get_game_state' = ONGOING)]_vars

C7_Witness ==
    /\ constructed
    /\ lastOp = "construct"
    /\ xCount + oCount = 0
    /\ currentPlayer = PX

\* C8: reset, from any state, yields the state of a fresh default engine:
\* all cells blank, every coordinate a valid move, zero counts, X to move,
\* no winner.
C8_ResetIsFresh ==
    [][lastOp' = "reset" => (constructed' /\ error' = None /\ FreshEngine')]_vars

C8_Witness ==
    /\ constructed
    /\ lastOp = "reset"

\* C9: the game state is XWins iff the winner is X, OWins iff the winner is
\* O, Draw iff there is no winner and no empty cell, Ongoing iff there is no
\* winner and some empty cell.
C9_GameStateMeaning ==
    constructed =>
        /\ (get_game_state = X_WINS) <=> (winner = PX)
        /\ (get_game_state = O_WINS) <=> (winner = PO)
        /\ (get_game_state = DRAW) <=> (winner = None /\ emptyCells = {})
        /\ (get_game_state = ONGOING) <=> (winner = None /\ emptyCells # {})

C9_Witness ==
    /\ constructed
    /\ get_game_state = DRAW
    /\ moves > 0

\* C10: a game played from the empty board that fills all 16 cells with no
\* row, column, diagonal, corner set or 2x2 block uniform ends with no
\* winner, is_game_over true and game state Draw.  (Marks are never removed
\* during such a game, so a shape that was ever uniform still is.)
C10_DrawAfterFill ==
    (constructed /\ BoardFull(board) /\ ~ AnyUniformShape(board)) =>
        (winner = None /\ is_game_over /\ get_game_state = DRAW)

C10_Witness ==
    /\ constructed
    /\ moves = Size * Size
    /\ BoardFull(board)
    /\ ~ AnyUniformShape(board)

\* the game state that reports player p as the winner
WinOf(p) == IF p = PX THEN X_WINS ELSE O_WINS

\* the shapes other than the 2x2 blocks
Lines == Rows \cup Columns \cup Diagonals \cup {CornerSet}

\* C11: a successful make_move after which all four cells of one of the nine
\* 2x2 blocks containing the moved cell hold the mover's mark sets the
\* winner to the mover, and the game state is then that player's win,
\* whether or not a row, column, diagonal or the corner set is complete.
C11_BlockMoveWins ==
    [][\A row \in Index : \A col \in Index :
          ( /\ MakeMove(row, col)
            /\ ret' = "True"
            /\ \E B \in Blocks : /\ <<row, col>> \in B
                                 /\ UniformFor(board', B, Value(currentPlayer)) )
          => /\ winner' = currentPlayer
             /\ get_game_state' = WinOf(currentPlayer)]_vars

\* the mover has just completed a block with their fourth mark and holds
\* no row, column, diagonal or corner set
C11_Witness ==
    /\ constructed /\ lastOp = "make_move" /\ ret = "True" /\ moves = 1
    /\ winner = Opponent(currentPlayer)
    /\ (IF winner = PX THEN xCount ELSE oCount) = Size
    /\ \E B \in Blocks : UniformFor(board, B, Value(winner))
    /\ \A L \in Lines : \A v \in {"X", "O"} : ~ UniformFor(board, L, v)
    /\ get_game_state = WinOf(winner)

\* C12: a successful make_move onto a corner after which all four corners
\* hold the mover's mark is a winning move for is_winning_move, and the
\* game state is then that player's win.
C12_CornerMoveWins ==
    [][\A row \in Index : \A col \in Index :
          ( /\ MakeMove(row, col)
            /\ ret' = "True"
            /\ <<row, col>> \in CornerSet
            /\ UniformFor(board', CornerSet, Value(currentPlayer)) )
          => /\ TicTacToe4x4_is_winning_move(board', xCount', oCount', currentPlayer, row, col)
             /\ winner' = currentPlayer
             /\ get_game_state' = WinOf(currentPlayer)]_vars

\* the mover has just taken the fourth corner with their fourth mark and
\* holds nothing else
C12_Witness ==
    /\ constructed /\ lastOp = "make_move" /\ ret = "True" /\ moves = 1
    /\ winner = Opponent(currentPlayer)
    /\ (IF winner = PX THEN xCount ELSE oCount) = Size
    /\ UniformFor(board, CornerSet, Value(winner))
    /\ \A S \in Shapes \ {CornerSet} : \A v \in {"X", "O"} : ~ UniformFor(board, S, v)
    /\ get_game_state = WinOf(winner)

\* the number of cells of a size x size grid holding v
Marks(g, v) == Cardinality({rc \in AllCells : Mark(g, rc) = v})

\* a supplied grid is size x size
SquareGrid(g) == DOMAIN g = Index /\ \A r \in Index : DOMAIN g[r] = Index

\* a supplied grid as the specification requires it: size x size, every
\* cell blank, X or O, at least one X, counts differing by at most one
ValidGrid(g) ==
    /\ SquareGrid(g)
    /\ \A rc \in AllCells : Mark(g, rc) \in {"", "X", "O"}
    /\ Marks(g, "X") >= 1
    /\ Abs(Marks(g, "X") - Marks(g, "O")) <= 1

ValidGrids == {g \in AllGridArgs : ValidGrid(g)}

\* C13: constructing from a valid supplied grid with no starting player
\* succeeds; validMoves is then exactly the set of blank cells of the grid,
\* xCount and oCount are the numbers of X and O cells, and the winner is
\* None when the grid has no uniform row, column, diagonal, corner set or
\* 2x2 block.
C13_ConstructFromValidGrid ==
    [][\A g \in ValidGrids :
          Construct(g, None)
          => /\ constructed' /\ error' = None
             /\ board' = g
             /\ valid_moves' = {rc \in AllCells : Mark(g, rc) = ""}
             /\ xCount' = Marks(g, "X")
             /\ oCount' = Marks(g, "O")
             /\ (~ AnyUniformShape(g) => winner' = None)]_vars

\* an engine built from a grid with unequal counts, blank cells and no
\* uniform shape
C13_Witness ==
    /\ constructed /\ lastOp = "construct" /\ error = None
    /\ xCount = oCount + 1
    /\ valid_moves # {} /\ valid_moves # AllCells
    /\ valid_moves = {rc \in AllCells : Mark(board, rc) = ""}
    /\ ~ AnyUniformShape(board)
    /\ winner = None

\* the supplied grids of the family that are not valid
InvalidGrids == {g \in AllGridArgs \ {NoGrid} : ~ ValidGrid(g)}

\* C14: constructing from a supplied grid that is not size x size, holds a
\* symbol other than blank, X and O, holds no X, or has counts differing by
\* more than one raises an error and yields no engine, whatever starting
\* player is given.
C14_InvalidGridRejected ==
    [][\A g \in InvalidGrids : \A p \in PlayerArgs :
          Construct(g, p) => error' = "ValueError" /\ ~ constructed']_vars

ValidWinGrids == {g \in WinGridArgs : ValidGrid(g)}

\* C15: constructing from a valid supplied grid with an explicit starting
\* player P raises an error and yields no engine exactly when P has strictly
\* more marks on the grid than the opponent; otherwise it succeeds with
\* currentPlayer = P, so with equal counts either player is accepted.
C15_ExplicitPlayer ==
    [][\A g \in ValidWinGrids : \A p \in {PX, PO} :
          Construct(g, p)
          => IF Marks(g, Value(p)) > Marks(g, OtherMark(Value(p)))
             THEN error' = "ValueError" /\ ~ constructed'
             ELSE constructed' /\ error' = None /\ currentPlayer' = p]_vars

\* an engine built from a grid with equal counts for a caller naming O
C15_Witness ==
    /\ constructed /\ lastOp = "construct" /\ error = None
    /\ xCount = oCount /\ xCount > 0
    /\ currentPlayer = PO

\* C16: constructing from a valid supplied grid with no starting player
\* sets currentPlayer to O when the grid holds more X than O, and to X
\* otherwise.
C16_InferredPlayer ==
    [][\A g \in ValidWinGrids :
          Construct(g, None)
          => /\ constructed'
             /\ currentPlayer' = (IF Marks(g, "X") > Marks(g, "O") THEN PO ELSE PX)]_vars

\* an engine built from a grid holding one O more than X, X to move
C16_Witness ==
    /\ constructed /\ lastOp = "construct" /\ error = None
    /\ oCount = xCount + 1
    /\ currentPlayer = PX

\* C17: in every reachable state is_game_over() is true exactly when the
\* winner is not None or no moves remain, and exactly when get_game_state()
\* is not Ongoing.
C17_GameOverMeaning ==
    constructed =>
        /\ is_game_over <=> (winner # None \/ valid_moves = {})
        /\ is_game_over <=> (get_game_state # ONGOING)

\* a game over by a full board with no winner
C17_Witness ==
    /\ constructed /\ winner = None
    /\ valid_moves = {} /\ BoardFull(board)
    /\ is_game_over /\ get_game_state = DRAW

\* C18: any_moves_left() is true exactly when validMoves is non-empty.  After
\* size * size successful make_move calls from an empty board it is false,
\* validMoves is empty and every further make_move returns False; right
\* after reset() it is true again.
C18_MovesLeft ==
    /\ [](constructed =>
            /\ any_moves_left <=> (valid_moves # {})
            /\ (moves = Size * Size => ~ any_moves_left /\ valid_moves = {}))
    /\ [][/\ \A row \in Coords : \A col \in Coords :
                (moves = Size * Size /\ MakeMove(row, col))
                => ret' = "False" /\ error' = None /\ moves' = moves
          /\ Reset => any_moves_left' /\ valid_moves' # {}]_vars

\* a further make_move has been refused on the board filled by sixteen moves
C18_Witness ==
    /\ constructed /\ moves = Size * Size
    /\ lastOp = "make_move" /\ ret = "False"
    /\ ~ any_moves_left /\ valid_moves = {}

\* the six fields of the second engine
otherEngine ==
    <<other.board, other.emptyCells, other.xCount, other.oCount,
      other.currentPlayer, other.winner>>

\* C19: engines share no mutable state.  A make_move or reset on one engine
\* leaves the board, emptyCells, counts, currentPlayer and winner of the
\* other engine unchanged, two engines constructed from the same supplied
\* grid included, and an engine's board changes only through a constructor,
\* make_move or reset call on that engine.
C19_NoSharedState ==
    [][/\ \A row \in Coords : \A col \in Coords :
             /\ (other.constructed /\ MakeMove(row, col)) => UNCHANGED otherEngine
             /\ OtherMakeMove(row, col) => UNCHANGED engine
       /\ (other.constructed /\ Reset) => UNCHANGED otherEngine
       /\ OtherReset => UNCHANGED engine
       /\ board' # board => lastOp' \in {"construct", "make_move", "reset"}
       /\ other.board' # other.board
              => lastOp' \in {"other_construct", "other_make_move", "other_reset"}]_vars

----------------------------------------------------------------------------
(* The win checks with the size-moves pre-check taken out: the same code   *)
(* without tic_tac_toe_abstract.py lines 255-257 and 294-295 and without   *)
(* tic_tac_toe_4x4.py lines 64-66.                                         *)

NoGuard_TicTacToeAbstract_is_winning_move(b, cur, row, col) ==
    LET player    == Value(cur)
        main_diag == Cardinality({i \in Index : b[i][i] = player})
        anti_diag == Cardinality({i \in Index : b[i][Size - 1 - i] = player})
    IN  IF \A i \in Index : b[row][i] = player THEN "True"
        ELSE IF Cardinality({i \in Index : b[i][col] = player}) = Size THEN "True"
        ELSE IF /\ (row = col \/ row + col = Size - 1)
                /\ (main_diag = Size \/ anti_diag = Size) THEN "True"
        ELSE "False"

NoGuard_TicTacToe4x4_is_winning_move(b, cur, row, col) ==
    IF Truthy(NoGuard_TicTacToeAbstract_is_winning_move(b, cur, row, col)) THEN TRUE
    ELSE IF /\ IsCorner(row, col)
            /\ \A k \in 1 .. Len(_corners) :
                   b[_corners[k][1]][_corners[k][2]] = Value(cur) THEN TRUE
    ELSE _is_winning_2x2_move(b, row, col)

NoGuard_TicTacToeAbstract_check_winner(b, w) ==
    LET hits == {i \in Index : RowColWinnerAt(b, i) # None}
    IN  IF w # None THEN w
        ELSE IF hits # {} THEN RowColWinnerAt(b, Min(hits))
        ELSE IF b[0][0] # "" /\ \A i \in 1 .. (Size - 1) : b[i][i] = b[0][0]
             THEN Player(b[0][0])
        ELSE IF /\ b[0][Size - 1] # ""
                /\ \A i \in 1 .. (Size - 1) : b[i][Size - 1 - i] = b[0][Size - 1]
             THEN Player(b[0][Size - 1])
        ELSE None

NoGuard_TicTacToe4x4_check_winner(b, w) ==
    LET standard_winner == NoGuard_TicTacToeAbstract_check_winner(b, w)
        corner_value    == b[_corners[1][1]][_corners[1][2]]
    IN  IF standard_winner # None THEN standard_winner
        ELSE IF /\ corner_value # ""
                /\ \A k \in 1 .. Len(_corners) :
                       b[_corners[k][1]][_corners[k][2]] = corner_value
             THEN Player(corner_value)
        ELSE _find_2x2_winner(b)

\* C20: the size-moves pre-check never changes the answer.  For every move
\* just placed, is_winning_move (of the abstract class and of the 4x4
\* class) is true exactly when it is true with the pre-check removed; and
\* in every reachable state check_winner(), also as the constructor calls
\* it on a supplied grid with no winner cached, returns what it returns
\* with the pre-check removed.
C20_GuardNeverChangesAnswer ==
    /\ [](constructed =>
            /\ TicTacToeAbstract_check_winner(board, xCount, oCount, winner)
                   = NoGuard_TicTacToeAbstract_check_winner(board, winner)
            /\ TicTacToe4x4_check_winner(board, xCount, oCount, winner)
                   = NoGuard_TicTacToe4x4_check_winner(board, winner)
            /\ TicTacToeAbstract_check_winner(board, xCount, oCount, None)
                   = NoGuard_TicTacToeAbstract_check_winner(board, None)
            /\ (lastOp = "construct" /\ boardRef = "caller"
                   => winner = NoGuard_TicTacToe4x4_check_winner(board, None)))
    /\ [][\A row \in Index : \A col \in Index :
             (MakeMove(row, col) /\ ret' = "True")
             => /\ Truthy(TicTacToeAbstract_is_winning_move(board', xCount', oCount',
                                                            currentPlayer, row, col))
                    <=> Truthy(NoGuard_TicTacToeAbstract_is_winning_move(board',
                                                            currentPlayer, row, col))
                /\ TicTacToe4x4_is_winning_move(board', xCount', oCount',
                                                currentPlayer, row, col)
                    <=> NoGuard_TicTacToe4x4_is_winning_move(board', currentPlayer, row, col)
                /\ (winner' = currentPlayer)
                    <=> (\/ winner = currentPlayer
                         \/ NoGuard_TicTacToe4x4_is_winning_move(board', currentPlayer,
                                                                 row, col))]_vars

\* the mover has just won with exactly size marks, the fewest the pre-check
\* lets through
C20_Witness ==
    /\ constructed /\ lastOp = "make_move" /\ ret = "True" /\ moves = 1
    /\ winner = Opponent(currentPlayer)
    /\ (IF winner = PX THEN xCount ELSE oCount) = Size
    /\ (IF winner = PX THEN oCount ELSE xCount) < Size
    /\ \E S \in Shapes : UniformFor(board, S, Value(winner))

\* the number of marks player p has placed
CountOf(p) == IF p = PX THEN xCount ELSE oCount

\* C21: a player is the winner only after placing at least size marks, so
\* while both players have fewer than size marks the game is not over and
\* the game state is Ongoing.
C21_NoWinBeforeSizeMarks ==
    constructed =>
        /\ \A p \in {PX, PO} : winner = p => CountOf(p) >= Size
        /\ (xCount < Size /\ oCount < Size)
               => /\ winner = None
                  /\ ~ is_game_over
                  /\ get_game_state = ONGOING

\* a player has just won by a move with exactly size marks, the opponent
\* holding fewer
C21_Witness ==
    /\ constructed /\ lastOp = "make_move" /\ ret = "True"
    /\ winner = Opponent(currentPlayer)
    /\ CountOf(winner) = Size
    /\ CountOf(currentPlayer) < Size

\* C22: for the mark just placed at (row, col) by the mover, the 4x4
\* is_winning_move(row, col) is true exactly when some shape containing
\* (row, col) holds only the mover's mark: its row, its column, a diagonal
\* it lies on, the corner set if it is a corner, or a 2x2 block around it.
\* A shape that does not contain the moved cell never makes it true.
C22_WinningMoveIsLocal ==
    [][\A row \in Index : \A col \in Index :
          (MakeMove(row, col) /\ ret' = "True")
          => ( TicTacToe4x4_is_winning_move(board', xCount', oCount', currentPlayer, row, col)
               <=> \E S \in Shapes : /\ <<row, col>> \in S
                                     /\ UniformFor(board', S, Value(currentPlayer)) )]_vars

\* the engine the constructor builds from a copy of grid g, no player given,
\* has the fields the playing engine has after the step
RebuiltAgrees(g) ==
    LET new == NewEngine(g, None, "own")
    IN  /\ new.error = None
        /\ new.e.constructed
        /\ new.e.winner = winner'
        /\ new.e.emptyCells = valid_moves'
        /\ new.e.xCount = xCount'
        /\ new.e.oCount = oCount'
        /\ new.e.currentPlayer = currentPlayer'

\* a game on an empty-built board in which X made the first move
XMovedFirst ==
    \/ (currentPlayer = PX /\ xCount = oCount)
    \/ (currentPlayer = PO /\ xCount = oCount + 1)

C24_WinnerMatchesBoard ==
    constructed =>
        /\ (winner = None) <=> ~ AnyUniformShape(board)
        /\ \A p \in {PX, PO} :
               winner = p => \E S \in Shapes : UniformFor(board, S, Value(p))

\* both players hold a uniform shape and the winner is the one who moved last
C24_Witness ==
    /\ constructed /\ lastOp = "make_move" /\ ret = "True"
    /\ winner = Opponent(currentPlayer)
    /\ \E S \in Shapes : UniformFor(board, S, "X")
    /\ \E S \in Shapes : UniformFor(board, S, "O")

\* the rows, columns and diagonals: the shapes of the generic scan
GenericLines == Rows \cup Columns \cup Diagonals

\* the 2x2 block whose top-left cell is a
BlockAt(a) == {<<a[1], a[2]>>, <<a[1], a[2] + 1>>, <<a[1] + 1, a[2]>>, <<a[1] + 1, a[2] + 1>>}

BlockAnchors == {<<r, c>> : r \in 0 .. (Size - 2), c \in 0 .. (Size - 2)}

\* the anchors of the uniform non-empty 2x2 blocks of b
UniformAnchors(b) ==
    {a \in BlockAnchors : \E v \in {"X", "O"} : UniformFor(b, BlockAt(a), v)}

\* the first of them in row-major order
FirstUniformAnchor(b) ==
    CHOOSE a \in UniformAnchors(b) :
        \A a2 \in UniformAnchors(b) : RowMajor(a) <= RowMajor(a2)

\* C25: on a supplied grid the 4x4 exhaustive check returns the owner of a
\* uniform row, column or diagonal whenever there is one; if there is none,
\* the owner of the four corners when they are uniform and non-empty; if
\* that fails, the owner of the first uniform non-empty 2x2 block in
\* row-major order of the anchors; and None when no block is uniform.
C25_ScanPrecedence ==
    (constructed /\ lastOp = "construct" /\ boardRef = "caller") =>
        IF \E L \in GenericLines : \E v \in {"X", "O"} : UniformFor(board, L, v)
        THEN /\ winner # None
             /\ \E L \in GenericLines : UniformFor(board, L, Value(winner))
        ELSE IF \E v \in {"X", "O"} : UniformFor(board, CornerSet, v)
        THEN winner # None /\ UniformFor(board, CornerSet, Value(winner))
        ELSE IF UniformAnchors(board) # {}
        THEN winner = Player(Mark(board, FirstUniformAnchor(board)))
        ELSE winner = None

\* a supplied grid with no uniform line or corner set and two uniform blocks
\* of different owners, O's met first
C25_Witness ==
    /\ constructed /\ lastOp = "construct" /\ boardRef = "caller"
    /\ \A S \in GenericLines \cup {CornerSet} : \A v \in {"X", "O"} : ~ UniformFor(board, S, v)
    /\ \E a \in UniformAnchors(board) : Mark(board, a) = "X"
    /\ Mark(board, FirstUniformAnchor(board)) = "O"
    /\ winner = PO

\* C26 as stated: in a game played from the empty board by make_move alone,
\* no move being made once a winner exists, at most one 2x2 block is
\* uniform and non-empty after every move.
C26_AtMostOneBlock ==
    [][\A row \in Index : \A col \in Index :
          (boardRef = "own" /\ winner = None /\ MakeMove(row, col) /\ ret' = "True")
          => Cardinality(UniformAnchors(board')) <= 1]_vars

\* C26, amended: in such a game every uniform non-empty 2x2 block holds the
\* mark of the player who has just moved and contains the cell just played,
\* so at most four blocks are uniform at once and all have the same owner.
C26_BlocksThroughLastMove ==
    [][\A row \in Index : \A col \in Index :
          (boardRef = "own" /\ winner = None /\ MakeMove(row, col) /\ ret' = "True")
          => /\ \A a \in UniformAnchors(board') :
                    /\ <<row, col>> \in BlockAt(a)
                    /\ UniformFor(board', BlockAt(a), Value(currentPlayer))
             /\ Cardinality(UniformAnchors(board')) <= 4
             /\ (UniformAnchors(board') # {} => winner' = currentPlayer)]_vars

\* one move has completed two 2x2 blocks at once: every uniform shape of the
\* winner passes through one cell, and the opponent holds none
C26_Witness ==
    /\ constructed /\ boardRef = "own" /\ lastOp = "make_move" /\ ret = "True"
    /\ winner = Opponent(currentPlayer)
    /\ Cardinality(UniformAnchors(board)) >= 2
    /\ \E rc \in AllCells :
           \A S \in Shapes : UniformFor(board, S, Value(winner)) => rc \in S
    /\ \A S \in Shapes : ~ UniformFor(board, S, Value(currentPlayer))

\* C27: the engine does not block play after the game is over: in a state
\* with a winner, make_move on an empty in-range cell returns True, places
\* the current player's mark there and nowhere else, removes the cell from
\* emptyCells, raises that player's count by one and passes the turn, as in
\* an ongoing game.
C27_MoveAfterGameOver ==
    [][\A row \in Index : \A col \in Index :
          (winner # None /\ Mark(board, <<row, col>>) = "" /\ MakeMove(row, col))
          => /\ ret' = "True"
             /\ error' = None
             /\ board'[row][col] = Value(currentPlayer)
             /\ \A rc \in AllCells \ {<<row, col>>} : Mark(board', rc) = Mark(board, rc)
             /\ emptyCells' = emptyCells \ {<<row, col>>}
             /\ xCount' = xCount + (IF currentPlayer = PX THEN 1 ELSE 0)
             /\ oCount' = oCount + (IF currentPlayer = PO THEN 1 ELSE 0)
             /\ currentPlayer' = Opponent(currentPlayer)]_vars

\* a move accepted after the game was over: the player to move is the
\* winner, so the winner was set before the last mark was placed
C27_Witness ==
    /\ constructed
    /\ lastOp = "make_move"
    /\ ret = "True"
    /\ winner # None
    /\ winner = currentPlayer

\* C28: in the loop of play_game no mark is placed and the turn is not
\* passed before the mover's cell is chosen, and when line 47 has run the
\* board holds exactly one mark more than when the iteration began, on the
\* chosen cell and of the player who was current then, and the turn has
\* passed to the opponent; the make_move of line 47 places the mark of the
\* AI and returns True, while after _human_move it returns False and leaves
\* the engine as _human_move left it.
C28_OneMarkPerIteration ==
    /\ [](game.pc \in {"_ai_move", "_human_move"}
            => MarksOn(board) = game.marks /\ currentPlayer = game.current_player)
    /\ [][LoopMakeMove =>
            /\ MarksOn(board') = game.marks + 1
            /\ xCount' + oCount' = game.marks + 1
            /\ Mark(board', game.move) = Value(game.current_player)
            /\ currentPlayer' = Opponent(game.current_player)
            /\ IF game.ai_game /\ game.current_player = game.ai_player
               THEN /\ ret' = "True"
                    /\ Mark(board, game.move) = ""
                    /\ currentPlayer = game.current_player
               ELSE /\ ret' = "False"
                    /\ UNCHANGED engine]_vars

\* an iteration of a human mover has ended in a game against the AI, after
\* an iteration of the AI
C28_Witness ==
    /\ game.pc = "while"
    /\ game.ai_game
    /\ game.current_player # None
    /\ game.current_player # game.ai_player
    /\ lastOp = "make_move"
    /\ ret = "False"
    /\ game.marks >= 1
    /\ MarksOn(board) = game.marks + 1

InPlay == game.pc \in {"while", "_ai_move", "_human_move", "make_move"}

Over(b) == BoardFull(b) \/ AnyUniformShape(b)

\* C29: play_game terminates when every human prompt ends up yielding a
\* legal cell: a call that has entered the loop returns; at most Size * Size
\* moves are applied in it; no mark is placed on a board that is full or
\* holds a uniform shape; when the call has returned the state of the game
\* is Draw, XWins or OWins, and the tally of play_tournament raises no
\* KeyError.
C29_PlayGameTerminates ==
    /\ [](game.pc # "none"
            => /\ moves <= Size * Size
               /\ MarksOn(board) = moves
               /\ game.pc # "raised" /\ game.error = None
               /\ (game.pc = "return"
                     => Over(board) /\ get_game_state \in {DRAW, X_WINS, O_WINS}))
    /\ [][(game.pc # "none" /\ Over(board))
            => (board' = board \/ (Reset /\ game'.pc = "while"))]_vars
    /\ (InPlay ~> game.pc = "return")

\* a tournament game that ended in a draw after Size * Size moves has been
\* tallied
C29_Witness ==
    /\ game.pc = "for"
    /\ game.tournament
    /\ game.results[DRAW] = 1
    /\ moves = Size * Size
    /\ get_game_state = DRAW

====
